---- MODULE Spec2Model ----
(***************************************************************************)
(* Patient Management System API (PatientDataManagement/main.py).          *)
(*                                                                         *)
(* patients.json is an ordered mapping id -> record: json.load gives a     *)
(* dict in file order, dict assignment to an existing key keeps the key's  *)
(* position, a new key goes last.  It is modelled as a sequence of         *)
(* [id, rec] entries with distinct ids.                                    *)
(*                                                                         *)
(* Numbers are fixed-point integers: age in tenths of a year (so that a    *)
(* JSON number with a fractional part can be sent), height in centimetres  *)
(* (hundredths of a metre), weight in tenths of a kilogram, bmi in         *)
(* hundredths.                                                             *)
(*                                                                         *)
(* A Python dict or JSON object whose values may be None/null is a         *)
(* function from its keys to tagged values: None, or Val(x).               *)
(***************************************************************************)
EXTENDS Integers, Sequences, FiniteSets, TLC

VARIABLES store,      \* the content of patients.json
          request,    \* the last request served
          response,   \* the response to it
          threads     \* the requests being served by the worker threads

vars == <<store, request, response, threads>>

----------------------------------------------------------------------------
(* Bounds of the model *)

\* most records the file holds: a create on a full store is not issued
MaxPatients == 2

\* worker threads serving requests at the same time
NumThreads == 2

----------------------------------------------------------------------------
(* Python values *)

None == [none |-> TRUE]
Val(x) == [none |-> FALSE, v |-> x]

Years(n) == 10 * n

\* what pydantic's int validation accepts of a JSON number: an integer, or a
\* float whose fractional part is zero
IsInt(n) == n % 10 = 0

----------------------------------------------------------------------------
(* Patient: the model of a record, its constraints and computed fields *)

PatientFields == {"id", "name", "city", "age", "gender", "height", "weight"}

AgeGt == 0
AgeLt == 120
Genders == {"male", "female", "others"}
HeightGt == 0
WeightGt == 0

\* Field(...) constraints of class Patient, on one value
PatientFieldOK(k, t) ==
    /\ ~t.none
    /\ CASE k = "age"    -> IsInt(t.v) /\ t.v > Years(AgeGt) /\ t.v < Years(AgeLt)
         [] k = "gender" -> t.v \in Genders
         [] k = "height" -> t.v > HeightGt
         [] k = "weight" -> t.v > WeightGt
         [] OTHER        -> TRUE

\* Patient(**d) validates: every field is required, keys that are no field
\* of the model are ignored
PatientValid(d) ==
    \A k \in PatientFields : k \in DOMAIN d /\ PatientFieldOK(k, d[k])

\* round(n / d, 0) as Python rounds: to nearest, a tie to the even neighbour
RoundHalfEven(n, d) ==
    LET q == n \div d
        r == n % d
    IN  IF 2 * r < d THEN q
        ELSE IF 2 * r > d THEN q + 1
        ELSE IF q % 2 = 0 THEN q ELSE q + 1

\* Patient.bmi: round(weight / height ** 2, 2), in hundredths
\* (weight in tenths of a kg, height in cm)
bmi(height, weight) == RoundHalfEven(weight * 100000, height * height)

UnderweightBelow == 1850
NormalBelow == 2500
OverweightBelow == 3000

\* Patient.verdict
verdict(b) ==
    IF b < UnderweightBelow THEN "Underweight"
    ELSE IF b >= UnderweightBelow /\ b < NormalBelow THEN "Normal"
    ELSE IF b >= NormalBelow /\ b < OverweightBelow THEN "Overweight"
    ELSE "Obese"

\* model_dump with the computed fields taken from the dict when it has them
model_dump_stale(d) ==
    [name    |-> d["name"].v,
     city    |-> d["city"].v,
     age     |-> d["age"].v,
     gender  |-> d["gender"].v,
     height  |-> d["height"].v,
     weight  |-> d["weight"].v,
     bmi     |-> IF "bmi" \in DOMAIN d THEN d["bmi"].v
                 ELSE bmi(d["height"].v, d["weight"].v),
     verdict |-> IF "verdict" \in DOMAIN d THEN d["verdict"].v
                 ELSE verdict(bmi(d["height"].v, d["weight"].v))]

\* model_dump with nothing excluded: the id stays in the dumped dict
model_dump_with_id(d) ==
    [id      |-> d["id"].v,
     name    |-> d["name"].v,
     city    |-> d["city"].v,
     age     |-> d["age"].v,
     gender  |-> d["gender"].v,
     height  |-> d["height"].v,
     weight  |-> d["weight"].v,
     bmi     |-> bmi(d["height"].v, d["weight"].v),
     verdict |-> verdict(bmi(d["height"].v, d["weight"].v))]

\* Patient(**d).model_dump(exclude=['id']): the fields but id, and the two
\* computed fields, computed from the validated height and weight
model_dump(d) ==
    [name    |-> d["name"].v,
     city    |-> d["city"].v,
     age     |-> d["age"].v,
     gender  |-> d["gender"].v,
     height  |-> d["height"].v,
     weight  |-> d["weight"].v,
     bmi     |-> bmi(d["height"].v, d["weight"].v),
     verdict |-> verdict(bmi(d["height"].v, d["weight"].v))]

----------------------------------------------------------------------------
(* The ordered mapping *)

Keys(data) == {data[i].id : i \in DOMAIN data}

IndexOf(data, id) == CHOOSE i \in DOMAIN data : data[i].id = id

\* data[id]
Get(data, id) == data[IndexOf(data, id)].rec

\* an assignment that moves an existing key to the end
PutLast(data, id, rec) ==
    Append(SelectSeq(data, LAMBDA e : e.id # id), [id |-> id, rec |-> rec])

\* data[id] = rec
Put(data, id, rec) ==
    IF id \in Keys(data)
    THEN [data EXCEPT ![IndexOf(data, id)].rec = rec]
    ELSE Append(data, [id |-> id, rec |-> rec])

\* del that removes the first entry, whatever its key
DelFirst(data, id) == Tail(data)

\* del data[id]
Del(data, id) == SelectSeq(data, LAMBDA e : e.id # id)

----------------------------------------------------------------------------
(* PatientUpdate: the body of an update, every field optional *)

UpdateFields == {"name", "city", "age", "gender", "height", "weight"}

UpdateAgeGt == 0
UpdateGenders == {"male", "female"}
UpdateHeightGt == 0
UpdateWeightGt == 0

\* Field(...) constraints of class PatientUpdate, on one value: None is
\* accepted by every Optional field
UpdateFieldOK(k, t) ==
    \/ t.none
    \/ CASE k = "age"    -> IsInt(t.v) /\ t.v > Years(UpdateAgeGt)
         [] k = "gender" -> t.v \in UpdateGenders
         [] k = "height" -> t.v > UpdateHeightGt
         [] k = "weight" -> t.v > UpdateWeightGt
         [] OTHER        -> TRUE

\* the request body validates as a PatientUpdate: no field is required
UpdateValid(u) ==
    \A k \in DOMAIN u \cap UpdateFields : UpdateFieldOK(k, u[k])

\* the stored record as the dict json.load gives
AsDict(rec) == [k \in DOMAIN rec |-> Val(rec[k])]

\* update_patient_data, lines 127-133: the items of
\* patient_update.model_dump(exclude_unset=True) written over the existing
\* dict, then the key 'id' added
Merge(existing, updated, p_id) ==
    [k \in DOMAIN existing \cup DOMAIN updated \cup {"id"} |->
        IF k = "id" THEN Val(p_id)
        ELSE IF k \in DOMAIN updated THEN updated[k]
        ELSE existing[k]]

----------------------------------------------------------------------------
(* Responses *)

Respond(op, status, detail, body) ==
    [op |-> op, status |-> status, detail |-> detail, body |-> body]

\* FastAPI's answer to a body that does not validate as the handler's model
RequestValidationError(op) == Respond(op, 422, "validation error", <<>>)

\* the answer to an exception the handler does not catch
InternalServerError(op) == Respond(op, 500, "Internal Server Error", <<>>)

----------------------------------------------------------------------------
(* The handlers, as functions of the data they loaded: the data to save *)
(* (save is FALSE when save_data is not reached) and the response       *)

\* Create without the test for an id already present
CreateOverwrite(data, patient) ==
    [save |-> TRUE, data |-> Put(data, patient["id"].v, model_dump(patient)),
     resp |-> Respond("create", 200, "Patient data created successfully", <<>>)]

Create(data, patient) ==
    LET id == patient["id"].v
    IN  IF id \in Keys(data)
        THEN [save |-> FALSE, data |-> data,
              resp |-> Respond("create", 400, "Patient ID already exists", <<>>)]
        ELSE [save |-> TRUE, data |-> Put(data, id, model_dump(patient)),
              resp |-> Respond("create", 200, "Patient data created successfully", <<>>)]

Update(data, patient_update, p_id) ==
    IF p_id \notin Keys(data)
    THEN [save |-> FALSE, data |-> data,
          resp |-> Respond("update", 404, "Patient ID not Found", <<>>)]
    ELSE LET existing_patient_info ==
                 Merge(AsDict(Get(data, p_id)), patient_update, p_id)
         IN  IF ~PatientValid(existing_patient_info)
             THEN [save |-> FALSE, data |-> data,
                   resp |-> InternalServerError("update")]
             ELSE [save |-> TRUE,
                   data |-> Put(data, p_id, model_dump(existing_patient_info)),
                   resp |-> Respond("update", 200, "Patient data updated successfully", <<>>)]

\* Delete that answers 200 when the id is absent
DeleteLenient(data, p_id) ==
    [save |-> TRUE, data |-> Del(data, p_id),
     resp |-> Respond("delete", 200, "Patient data deleted successfully", <<>>)]

Delete(data, p_id) ==
    IF p_id \notin Keys(data)
    THEN [save |-> FALSE, data |-> data,
          resp |-> Respond("delete", 404, "Patient ID not found", <<>>)]
    ELSE [save |-> TRUE, data |-> Del(data, p_id),
          resp |-> Respond("delete", 200, "Patient data deleted successfully", <<>>)]

\* x.get(sort_by, 0)
SortKey(x, sort_by) == IF sort_by \in DOMAIN x THEN x[sort_by] ELSE 0

Reverse(s) == [i \in 1..Len(s) |-> s[Len(s) + 1 - i]]

\* s with x put after the last element whose key is not greater: s is sorted
Insert(s, x, sort_by) ==
    LET n == Cardinality({i \in DOMAIN s : SortKey(s[i], sort_by) <= SortKey(x, sort_by)})
    IN  SubSeq(s, 1, n) \o <<x>> \o SubSeq(s, n + 1, Len(s))

RECURSIVE StableSort(_, _)
\* the stable ascending sort of list.sort
StableSort(s, sort_by) ==
    IF s = <<>> THEN <<>>
    ELSE Insert(StableSort(SubSeq(s, 1, Len(s) - 1), sort_by), s[Len(s)], sort_by)

\* sorted that reverses the ascending result
sorted_reversed(values, sort_by, reverse) ==
    IF reverse THEN Reverse(StableSort(values, sort_by))
    ELSE StableSort(values, sort_by)

\* sorted(values, key=..., reverse=...): with reverse the list is reversed,
\* sorted ascending and reversed again, which keeps equal keys in their order
sorted(values, sort_by, reverse) ==
    IF reverse THEN Reverse(StableSort(Reverse(values), sort_by))
    ELSE StableSort(values, sort_by)

\* data.values()
Values(data) == [i \in DOMAIN data |-> data[i].rec]

valid_fields == {"age", "height", "weight"}
valid_orders == {"asc", "desc"}

Sort(data, sort_by, order) ==
    Respond("sort", 200, "", sorted(Values(data), sort_by, order = "desc"))

View(data, p_id) ==
    IF p_id \in Keys(data)
    THEN Respond("view", 200, "", <<Get(data, p_id)>>)
    ELSE Respond("view", 404, "Patient ID not Found", <<>>)

----------------------------------------------------------------------------
(* The requests the clients send.  The records differ in height and      *)
(* weight (6.25, 18.50, 25.00 and 74.00 of bmi: the four verdicts, two of *)
(* them at a bracket's lower bound); the ids include the empty string.    *)

Ids == {"P001", "P002", ""}
Heights == {100, 200}
Weights == {250, 740}

Body(id, name, city, age, gender, height, weight) ==
    [k \in PatientFields |->
        CASE k = "id"     -> id
          [] k = "name"   -> name
          [] k = "city"   -> city
          [] k = "age"    -> age
          [] k = "gender" -> gender
          [] k = "height" -> height
          [] k = "weight" -> weight]

\* bodies every field of which class Patient accepts
GoodBodies ==
    {Body(Val(id), Val("Ann"), Val("Pune"), Val(Years(30)), Val("male"), Val(h), Val(w)) :
        id \in Ids, h \in Heights, w \in Weights}

BaseBody ==
    Body(Val("P001"), Val("Ann"), Val("Pune"), Val(Years(30)), Val("male"), Val(100), Val(250))

\* bodies with one field class Patient refuses, or left out
BadBodies ==
    {[BaseBody EXCEPT !["age"] = Val(a)] : a \in {0, Years(120), 305}}
    \cup {[BaseBody EXCEPT !["gender"] = Val("unknown")],
          [BaseBody EXCEPT !["height"] = Val(0)],
          [BaseBody EXCEPT !["weight"] = Val(0 - 250)],
          [BaseBody EXCEPT !["name"] = None],
          [k \in PatientFields \ {"city"} |-> BaseBody[k]]}

CreateBodies == GoodBodies \cup BadBodies

Only(k, t) == [f \in {k} |-> t]

\* update bodies: no field set, one field set, height and weight both set
UpdateBodies ==
    {<<>>,
     Only("weight", Val(740)), Only("weight", Val(0)),
     Only("height", Val(200)),
     Only("age", Val(Years(30))), Only("age", Val(Years(120))),
     Only("gender", Val("male")), Only("gender", Val("others")),
     Only("name", None),
     [f \in {"height", "weight"} |-> IF f = "height" THEN Val(100) ELSE Val(740)]}

Request(op, p_id, body, query) ==
    [op |-> op, id |-> p_id, body |-> body, query |-> query]

----------------------------------------------------------------------------
(* One request at a time: every handler runs from its load to its return. *)
(* Spec serves creates, updates, deletes and views from the empty file;    *)
(* sort_patient_data, which only reads, is served in SpecSort below.       *)

Threads == 1..NumThreads
Idle == [pc |-> "idle"]

Init ==
    /\ store = <<>>
    /\ request = Request("none", "", <<>>, <<>>)
    /\ response = Respond("none", 0, "", <<>>)
    /\ threads = [t \in Threads |-> Idle]

load_data == store

\* save_data(r.data), when the handler reached it
Saved(r) == IF r.save THEN r.data ELSE store

create_patient_data(patient) ==
    /\ request' = Request("create", "", patient, <<>>)
    /\ IF ~PatientValid(patient)
       THEN /\ response' = RequestValidationError("create")
            /\ store' = store
       ELSE LET r == Create(load_data, patient)
            IN  /\ r.save => Len(store) < MaxPatients
                /\ store' = Saved(r)
                /\ response' = r.resp
    /\ UNCHANGED threads

update_patient_data(patient_update, p_id) ==
    /\ request' = Request("update", p_id, patient_update, <<>>)
    /\ IF ~UpdateValid(patient_update)
       THEN /\ response' = RequestValidationError("update")
            /\ store' = store
       ELSE LET r == Update(load_data, patient_update, p_id)
            IN  /\ store' = Saved(r)
                /\ response' = r.resp
    /\ UNCHANGED threads

delete_patient_data(p_id) ==
    /\ request' = Request("delete", p_id, <<>>, <<>>)
    /\ LET r == Delete(load_data, p_id)
       IN  /\ store' = Saved(r)
           /\ response' = r.resp
    /\ UNCHANGED threads

view_paitent_data(p_id) ==
    /\ request' = Request("view", p_id, <<>>, <<>>)
    /\ response' = View(load_data, p_id)
    /\ UNCHANGED <<store, threads>>

sort_patient_data(sort_by, order) ==
    /\ request' = Request("sort", "", <<>>, <<sort_by, order>>)
    /\ response' =
          IF sort_by \notin valid_fields
          THEN Respond("sort", 400, "Invalid field", <<>>)
          ELSE IF order \notin valid_orders
          THEN Respond("sort", 400, "Invalid order", <<>>)
          ELSE Sort(load_data, sort_by, order)
    /\ UNCHANGED <<store, threads>>

Next ==
    \/ \E patient \in CreateBodies : create_patient_data(patient)
    \/ \E patient_update \in UpdateBodies, p_id \in Ids :
          update_patient_data(patient_update, p_id)
    \/ \E p_id \in Ids : delete_patient_data(p_id)
    \/ \E p_id \in Ids : view_paitent_data(p_id)

Spec == Init /\ [][Next]_vars

----------------------------------------------------------------------------
(* Sorting, from every store of records that differ in the sort fields *)

IdOrder == <<"P001", "P002", "">>

SortRecords ==
    {model_dump(Body(Val("P001"), Val("Ann"), Val("Pune"), Val(a), Val("male"), Val(h), Val(w))) :
        a \in {Years(30), Years(45)}, h \in Heights, w \in Weights}

SortStores ==
    UNION {{[i \in 1..n |-> [id |-> IdOrder[i], rec |-> recs[i]]] :
                recs \in [1..n -> SortRecords]} : n \in 0..MaxPatients}

SortFields == valid_fields \cup {"name"}
SortOrders == valid_orders \cup {"up"}

InitSort ==
    /\ store \in SortStores
    /\ request = Request("none", "", <<>>, <<>>)
    /\ response = Respond("none", 0, "", <<>>)
    /\ threads = [t \in Threads |-> Idle]

NextSort ==
    \E sort_by \in SortFields, order \in SortOrders :
        sort_patient_data(sort_by, order)

SpecSort == InitSort /\ [][NextSort]_vars

----------------------------------------------------------------------------
(* Requests served at the same time: FastAPI runs the handlers, plain      *)
(* functions, on the threads of a pool; a handler's load_data and          *)
(* save_data are two accesses to the file, and nothing orders the accesses *)
(* of two handlers                                                         *)

ConcBody(id, w) ==
    Body(Val(id), Val("Ann"), Val("Pune"), Val(Years(30)), Val("male"), Val(100), Val(w))

ConcRequests ==
    {Request("create", "", ConcBody("P001", 250), <<>>),
     Request("create", "", ConcBody("P002", 740), <<>>),
     Request("create", "", [ConcBody("P002", 740) EXCEPT !["height"] = Val(0)], <<>>),
     Request("update", "P001", Only("weight", Val(740)), <<>>),
     Request("delete", "P001", <<>>, <<>>)}

InitConc ==
    /\ store \in {<<>>, <<[id |-> "P001", rec |-> model_dump(ConcBody("P001", 250))]>>}
    /\ request = Request("none", "", <<>>, <<>>)
    /\ response = Respond("none", 0, "", <<>>)
    /\ threads = [t \in Threads |-> Idle]

\* the body validates as the model the handler declares
BodyValid(req) ==
    CASE req.op = "create" -> PatientValid(req.body)
      [] req.op = "update" -> UpdateValid(req.body)
      [] OTHER             -> TRUE

\* the handler of req, run on the data it loaded
Handle(req, data) ==
    CASE req.op = "create" -> Create(data, req.body)
      [] req.op = "update" -> Update(data, req.body, req.id)
      [] req.op = "delete" -> Delete(data, req.id)

\* thread t takes a request: its body is validated and the handler loads
\* the file
load(t, req) ==
    /\ threads[t].pc = "idle"
    /\ threads' = [threads EXCEPT ![t] =
          IF BodyValid(req)
          THEN [pc |-> "loaded", req |-> req, data |-> load_data]
          ELSE [pc |-> "done", req |-> req, resp |-> RequestValidationError(req.op)]]
    /\ UNCHANGED <<store, request, response>>

\* thread t runs the rest of its handler: the mapping it loaded is changed,
\* saved and the response returned
finish(t) ==
    /\ threads[t].pc = "loaded"
    /\ LET r == Handle(threads[t].req, threads[t].data)
       IN  /\ store' = Saved(r)
           /\ threads' = [threads EXCEPT ![t] =
                  [pc |-> "done", req |-> threads[t].req, resp |-> r.resp]]
    /\ UNCHANGED <<request, response>>

NextConc ==
    \/ \E t \in Threads, req \in ConcRequests : load(t, req)
    \/ \E t \in Threads : finish(t)

SpecConc == InitConc /\ [][NextConc]_vars

----------------------------------------------------------------------------
(* Properties *)

Abs(n) == IF n < 0 THEN 0 - n ELSE n

\* the key has a value in the body, and the value is not null
Has(body, k) == k \in DOMAIN body /\ ~body[k].none

\* the id a request is about
TargetId(req) == IF req.op = "create" THEN req.body["id"].v ELSE req.id

\* rec carries the bmi and the verdict its height and weight give: the bmi
\* is the hundredth nearest to weight / height^2, the verdict its bracket
Derived(rec) ==
    /\ 2 * Abs(rec.bmi * rec.height * rec.height - rec.weight * 100000)
          <= rec.height * rec.height
    /\ rec.bmi < 1850 => rec.verdict = "Underweight"
    /\ rec.bmi >= 1850 /\ rec.bmi < 2500 => rec.verdict = "Normal"
    /\ rec.bmi >= 2500 /\ rec.bmi < 3000 => rec.verdict = "Overweight"
    /\ rec.bmi >= 3000 => rec.verdict = "Obese"

\* C1: in every store reached by creates, updates and deletes from the empty
\* store, every record's bmi is round(weight / height^2, 2) and its verdict
\* is the bracket of that bmi (Underweight below 18.5, Normal from 18.5 to
\* below 25, Overweight from 25 to below 30, Obese from 30)
C1_DerivedFieldsCurrent ==
    \A i \in DOMAIN store : Derived(store[i].rec)

\* an update that set the weight alone succeeded, and the record is at the
\* lower bound of Normal: 74.0 kg at 2.00 m is 18.50
C1_Witness ==
    /\ request.op = "update"
    /\ response.status = 200
    /\ DOMAIN request.body = {"weight"}
    /\ Get(store, request.id).weight = 740
    /\ Get(store, request.id).height = 200
    /\ Get(store, request.id).bmi = 1850
    /\ Get(store, request.id).verdict = "Normal"

\* every set field of the update holds a value class Patient accepts for
\* that field
SetFieldsFitRecord(u) ==
    \A k \in DOMAIN u : ~u[k].none /\ PatientFieldOK(k, u[k])

\* C2: an update of a stored id whose set fields hold values valid for the
\* record's fields succeeds; afterwards the record under that id has every
\* set field equal to the update's value and every other field as before,
\* the ids are the same, in the same order, and no other record changed
C2_UpdateMergesRecordValues ==
    [][(/\ request'.op = "update"
        /\ request'.id \in Keys(store)
        /\ SetFieldsFitRecord(request'.body))
       => /\ response'.status = 200
          /\ [i \in DOMAIN store' |-> store'[i].id] = [i \in DOMAIN store |-> store[i].id]
          /\ \A k \in UpdateFields :
                Get(store', request'.id)[k] =
                    IF k \in DOMAIN request'.body THEN request'.body[k].v
                    ELSE Get(store, request'.id)[k]
          /\ \A i \in DOMAIN store :
                store[i].id # request'.id => store'[i] = store[i]]_vars

\* what the record validator is specified to refuse
Refusable(body) ==
    \/ \E k \in PatientFields : ~Has(body, k)
    \/ body["id"].v = "" \/ body["name"].v = "" \/ body["city"].v = ""
    \/ ~(body["age"].v % 10 = 0 /\ body["age"].v > 0 /\ body["age"].v < 1200)
    \/ body["gender"].v \notin {"male", "female", "others"}
    \/ body["height"].v <= 0
    \/ body["weight"].v <= 0

\* C4: a create whose candidate has an empty id, name or city, an age that
\* is not an integer strictly between 0 and 120, a gender other than male,
\* female and others, a height <= 0 or a weight <= 0 is answered with a
\* validation error and leaves the store unchanged; a candidate with none
\* of these and an id not in the store is accepted
C4_CreateValidates ==
    [][request'.op = "create"
       => /\ Refusable(request'.body)
                => response'.status = 422 /\ store' = store
          /\ (~Refusable(request'.body) /\ TargetId(request') \notin Keys(store))
                => /\ response'.status = 200
                   /\ TargetId(request') \in Keys(store')]_vars

\* C5: a create of a record whose id is in the store is answered "Patient
\* ID already exists" (400) and leaves the store as it was; a candidate the
\* validator refuses is answered 422 before the id is looked at, and leaves
\* the store as it was too
C5_DuplicateCreateConflicts ==
    [][(/\ request'.op = "create"
        /\ Has(request'.body, "id")
        /\ TargetId(request') \in Keys(store))
       => /\ store' = store
          /\ IF PatientValid(request'.body)
             THEN /\ response'.status = 400
                  /\ response'.detail = "Patient ID already exists"
             ELSE response'.status = 422]_vars

\* a create of a record that differs from the one stored under its id was
\* answered 400, and the stored record is still the old one
C5_Witness ==
    /\ request.op = "create"
    /\ response.status = 400
    /\ TargetId(request) \in Keys(store)
    /\ Get(store, TargetId(request)).weight # request.body["weight"].v

\* C6: a request that fails leaves the store as it was, and an update that
\* fails is reported as NotFoundError (404) or ValidationError (422), also
\* when it is the merged record that breaks a constraint of the record
C6_FailuresKeepStoreAndAreClassified ==
    [][response'.status # 200
       => /\ store' = store
          /\ request'.op = "update" => response'.status \in {404, 422}]_vars

\* C7 as claimed: an update or a delete of an id not in the store is
\* answered 404 and leaves the store unchanged, whatever the update's body
C7_UnknownIdIsNotFound ==
    [][(/\ request'.op \in {"update", "delete"}
        /\ request'.id \notin Keys(store))
       => /\ response'.status = 404
          /\ store' = store]_vars

\* C7 amended: a delete of an id not in the store is answered 404; an update
\* of an id not in the store is answered 404 when its body validates as a
\* PatientUpdate and 422 when it does not; both leave the store unchanged
C7_UnknownIdNotFoundAfterValidation ==
    [][(/\ request'.op \in {"update", "delete"}
        /\ request'.id \notin Keys(store))
       => /\ store' = store
          /\ response'.status =
                IF request'.op = "update" /\ ~UpdateValid(request'.body)
                THEN 422 ELSE 404]_vars

\* an update that sets a field, and a delete, of an id not in the store
\* were answered 404
C7_Witness ==
    /\ request.op = "update"
    /\ DOMAIN request.body # {}
    /\ request.id \notin Keys(store)
    /\ store # <<>>
    /\ response.status = 404

\* C8: a delete of a stored id is answered 200 and removes that record and
\* no other: the id is gone, the other ids keep their order and records.
\* A view of an id not in the store is answered 404, and an id not in the
\* store gets into it only by a create of that id answered 200
C8_DeleteRemovesExactlyTheRecord ==
    [][/\ (request'.op = "delete" /\ request'.id \in Keys(store))
            => /\ response'.status = 200
               /\ request'.id \notin Keys(store')
               /\ Len(store') = Len(store) - 1
               /\ \A i \in DOMAIN store' :
                     \E j \in DOMAIN store :
                        /\ store'[i] = store[j]
                        /\ store[j].id # request'.id
                        /\ j \in {i, i + 1}
       /\ (request'.op = "view" /\ request'.id \notin Keys(store))
            => response'.status = 404 /\ response'.body = <<>>
       /\ \A id \in Ids :
             (id \notin Keys(store) /\ id \in Keys(store'))
                => /\ request'.op = "create"
                   /\ TargetId(request') = id
                   /\ response'.status = 200]_vars

\* a delete took the first of two records out, and the other one stays
C8_Witness ==
    /\ request.op = "delete"
    /\ response.status = 200
    /\ request.id = "P001"
    /\ Keys(store) = {"P002"}

IndexPermutations(n) ==
    {p \in [1..n -> 1..n] : \A i, j \in 1..n : i # j => p[i] # p[j]}

\* out holds the records of values, each once, in the order of the field
\* (descending when desc), records with equal fields in the order of values
SortedStably(values, out, sort_by, desc) ==
    /\ Len(out) = Len(values)
    /\ \E p \in IndexPermutations(Len(values)) :
          /\ \A i \in DOMAIN out : out[i] = values[p[i]]
          /\ \A i, j \in DOMAIN out :
                i < j =>
                   /\ IF desc THEN out[i][sort_by] >= out[j][sort_by]
                      ELSE out[i][sort_by] <= out[j][sort_by]
                   /\ out[i][sort_by] = out[j][sort_by] => p[i] < p[j]

\* C9: a sort by age, height or weight, asc or desc, is answered with all
\* the records of the store, each once, ordered by the field, records with
\* equal values in their order in the store, for desc as for asc; the store
\* is not changed
C9_SortIsStable ==
    [][(/\ request'.op = "sort"
        /\ request'.query[1] \in {"age", "height", "weight"}
        /\ request'.query[2] \in {"asc", "desc"})
       => /\ store' = store
          /\ response'.status = 200
          /\ SortedStably([i \in DOMAIN store |-> store[i].rec], response'.body,
                          request'.query[1], request'.query[2] = "desc")]_vars

\* a descending sort by age of three records, the first two of the store
\* different records of the greater age: they come first, in store order
C9_Witness ==
    /\ request.op = "sort"
    /\ request.query = <<"age", "desc">>
    /\ Len(store) >= 2
    /\ store[1].rec.age = store[2].rec.age
    /\ store[1].rec # store[2].rec
    /\ response.body[1] = store[1].rec
    /\ response.body[2] = store[2].rec

\* C10: an update of a stored id with no field set is answered 200 and
\* leaves the store as it was, so that repeating it changes nothing either
C10_EmptyUpdateIsNoOp ==
    [][(/\ request'.op = "update"
        /\ DOMAIN request'.body = {}
        /\ request'.id \in Keys(store))
       => /\ response'.status = 200
          /\ store' = store]_vars

\* an update with no field set, of the first of two records, was answered
\* 200
C10_Witness ==
    /\ request.op = "update"
    /\ DOMAIN request.body = {}
    /\ response.status = 200
    /\ Len(store) = 2
    /\ store[1].id = request.id

\* C11: in every store reached by creates, updates and deletes from the
\* empty store, every value has exactly the eight keys name, city, age,
\* gender, height, weight, bmi and verdict (the id is the key of the mapping
\* only), its age is an integer strictly between 0 and 120, its gender one
\* of male, female and others, its height and its weight above 0; and no
\* two entries have the same id
C11_StoredRecordShape ==
    /\ \A i \in DOMAIN store :
          /\ DOMAIN store[i].rec =
                {"name", "city", "age", "gender", "height", "weight", "bmi", "verdict"}
          /\ store[i].rec.age % 10 = 0
          /\ store[i].rec.age > 0
          /\ store[i].rec.age < 1200
          /\ store[i].rec.gender \in {"male", "female", "others"}
          /\ store[i].rec.height > 0
          /\ store[i].rec.weight > 0
    /\ \A i, j \in DOMAIN store : store[i].id = store[j].id => i = j

\* an update that set the height, for which the handler puts the key 'id'
\* into the dict it validates, was saved over the second of two records
C11_Witness ==
    /\ request.op = "update"
    /\ response.status = 200
    /\ DOMAIN request.body = {"height"}
    /\ Len(store) = 2
    /\ store[2].id = request.id
    /\ store[2].rec.height = request.body["height"].v

----------------------------------------------------------------------------
(* Properties of requests served at the same time *)

Done(t) == threads[t].pc = "done"

\* what a request answered 200 leaves in the store
Effect(req) ==
    CASE req.op = "create" ->
            /\ TargetId(req) \in Keys(store)
            /\ Get(store, TargetId(req)).weight = req.body["weight"].v
      [] req.op = "update" ->
            /\ TargetId(req) \in Keys(store)
            /\ \A k \in DOMAIN req.body : Get(store, TargetId(req))[k] = req.body[k].v
      [] req.op = "delete" -> TargetId(req) \notin Keys(store)

\* C3: when every request has been answered, the store shows the effect of
\* every request answered 200 that no other answered request is about the
\* same id as: no write of one handler is lost to the other
C3_NoLostUpdate ==
    (\A t \in Threads : Done(t))
    => \A t \in Threads :
          (/\ threads[t].resp.status = 200
           /\ \A u \in Threads \ {t} :
                 BodyValid(threads[u].req) =>
                    TargetId(threads[u].req) # TargetId(threads[t].req))
          => Effect(threads[t].req)

====
